---- MODULE Spec2Model ----
(***************************************************************************)
(* Model of GdkAttachParams (gdk/gdkattachparams.c): the parameter object, *)
(* its setters, its callback-context ownership, and the rule-based         *)
(* position solver gdk_attach_params_choose_position with its caller       *)
(* gdk_attach_params_move_window.                                          *)
(*                                                                         *)
(* A GdkAttachRule is a bit mask.  The solver only ever looks at it        *)
(* through three masks (GDK_ATTACH_AXIS_MASK, GDK_ATTACH_RECT_MASK,        *)
(* GDK_ATTACH_WINDOW_MASK) and through its truth value, so a rule is       *)
(* modelled as the record of its three masked fields; a field that equals  *)
(* none of the enumerators the code switches on is "NONE".  The rule 0     *)
(* (the terminator of the variadic adders) has all three fields "NONE".    *)
(***************************************************************************)
EXTENDS Integers, Sequences, FiniteSets, TLC

VARIABLES heap, arrays, ctx, log

vars == <<heap, arrays, ctx, log>>

(***************************************************************************)
(* Bounds of the model.                                                    *)
(***************************************************************************)
\* total number of rules held by one params (both lists together)
MaxRules == 3
\* number of GdkAttachParams objects ever allocated (new or copy)
MaxParams == 2
\* number of distinct callback contexts the caller ever creates
MaxCtx == 2

(***************************************************************************)
(* Program constants: the index macros of gdkattachparams.c.               *)
(***************************************************************************)
BEST == 0
GOOD == 1
PRIMARY == 0
SECONDARY == 1
X == 0
Y == 1

(***************************************************************************)
(* Values.                                                                 *)
(***************************************************************************)
\* pointers are records: the null pointer, a pointer to the caller's context c,
\* a pointer to a function, a pointer to the GArray at address a; a pointer to
\* a struct passed as an argument is the struct's value
NULL == [null |-> TRUE]

ArrPtr(a) == [arr |-> a]

CtxPtr(c) == [ctx |-> c]

FnPtr(name) == [fn |-> name]

Rule(a, r, w) == [axis |-> a, rect |-> r, win |-> w]

\* the rule whose bits are all clear
ZeroRule == Rule("NONE", "NONE", "NONE")

GdkRectangle(x, y, w, h) == [x |-> x, y |-> y, width |-> w, height |-> h]

GdkBorder(l, r, t, b) == [left |-> l, right |-> r, top |-> t, bottom |-> b]

ZeroBorder == GdkBorder(0, 0, 0, 0)

\* variant of Half that rounds away from zero
HalfRoundingUp(n) == IF n >= 0 THEN (n + 1) \div 2 ELSE -((1 - n) \div 2)

\* C integer division truncates toward zero
Half(n) == IF n >= 0 THEN n \div 2 ELSE -((-n) \div 2)

\* a C truth value used as an array index
AsIndex(b) == IF b THEN 1 ELSE 0

\* the params gdk_attach_params_new returns, its two (empty) rule arrays read
\* out: the form in which the solver's operators take a params
gdk_attach_params_new ==
  [origin_x |-> 0, origin_y |-> 0,
   has_attach_rect |-> FALSE,
   attach_rect |-> GdkRectangle(0, 0, 0, 0),
   attach_margin |-> ZeroBorder,
   window_margin |-> ZeroBorder,
   window_padding |-> ZeroBorder,
   offset_x |-> 0, offset_y |-> 0,
   primary_rules |-> <<>>,
   secondary_rules |-> <<>>,
   attach_callback |-> NULL,
   attach_user_data |-> NULL,
   attach_destroy_notify |-> NULL]

(***************************************************************************)
(* is_satisfiable: the candidate coordinate of a rule and whether the      *)
(* window placed there lies inside the bounds on the rule's axis.          *)
(***************************************************************************)
use_rect_margin(rule) ==
  \/ (rule.rect = "MIN" /\ rule.win = "MAX")
  \/ (rule.rect = "MAX" /\ rule.win = "MIN")

use_window_margin(rule) == use_rect_margin(rule)

use_window_padding(rule) == TRUE

\* the first switch: the attachment rectangle's side (no default case)
RectTerm(rule, pos, size, margin_min, margin_max) ==
  CASE rule.rect = "MIN" ->
         pos - (IF use_rect_margin(rule) THEN margin_min ELSE 0)
    [] rule.rect = "MID" -> pos + Half(size)
    [] rule.rect = "MAX" ->
         pos + size + (IF use_rect_margin(rule) THEN margin_max ELSE 0)
    [] OTHER -> 0

\* the second switch: the window's side (no default case)
WindowTerm(rule, size, margin_min, margin_max) ==
  CASE rule.win = "MIN" ->
         (IF use_window_margin(rule) THEN margin_min ELSE 0)
         - (IF use_window_padding(rule) THEN margin_min ELSE 0)
    [] rule.win = "MID" -> -Half(size)
    [] rule.win = "MAX" ->
         -size
         - (IF use_window_margin(rule) THEN margin_max ELSE 0)
         + (IF use_window_padding(rule) THEN margin_max ELSE 0)
    [] OTHER -> 0

\* *value as left by is_satisfiable for a rule with a valid axis
RuleValue(rule, params, width, height) ==
  IF rule.axis = "X"
  THEN params.origin_x
       + RectTerm(rule, params.attach_rect.x, params.attach_rect.width,
                  params.attach_margin.left, params.attach_margin.right)
       + WindowTerm(rule, width,
                    params.window_margin.left, params.window_margin.right)
       + params.offset_x
  ELSE params.origin_y
       + RectTerm(rule, params.attach_rect.y, params.attach_rect.height,
                  params.attach_margin.top, params.attach_margin.bottom)
       + WindowTerm(rule, height,
                    params.window_margin.top, params.window_margin.bottom)
       + params.offset_y

\* the return expression of each axis case
FitsBounds(axis, value, width, height, bounds) ==
  \/ bounds = NULL
  \/ IF axis = "X"
     THEN bounds.x <= value /\ value + width <= bounds.x + bounds.width
     ELSE bounds.y <= value /\ value + height <= bounds.y + bounds.height

\* value is 0 where the code leaves *value unwritten; no caller reads it then
is_satisfiable(rule, params, width, height, bounds) ==
  IF ~params.has_attach_rect \/ rule.axis \notin {"X", "Y"}
  THEN [sat |-> FALSE, value |-> 0]
  ELSE LET v == RuleValue(rule, params, width, height)
       IN  [sat |-> FitsBounds(rule.axis, v, width, height, bounds),
            value |-> v]

(***************************************************************************)
(* gdk_attach_params_choose_position, first loop: one pass over a rule     *)
(* array filling rules[i][BEST|GOOD][X|Y], values[i][..][..] and           *)
(* axes[i][BEST|GOOD].                                                     *)
(***************************************************************************)
Slots == {BEST, GOOD}

Axes == {X, Y}

\* !axis
Other(axis) == 1 - axis

\* the switch on rule & GDK_ATTACH_AXIS_MASK; -1 is the default case
AxisIndex(rule) ==
  CASE rule.axis = "X" -> X
    [] rule.axis = "Y" -> Y
    [] OTHER -> -1

\* the zero-initialised rules[i], axes[i], values[i]; stop is the break
ScanStart ==
  [rules |-> [q \in Slots |-> [a \in Axes |-> ZeroRule]],
   values |-> [q \in Slots |-> [a \in Axes |-> 0]],
   axes |-> [q \in Slots |-> 0],
   stop |-> FALSE]

\* variant of ScanStep whose first branch does not test that the best slot of
\* the axis is still empty: a later satisfiable rule replaces an earlier one
ScanStepLastBest(st, rule, params, width, height, bounds) ==
  LET axis == AxisIndex(rule)
  IN  IF axis < 0
      THEN st
      ELSE LET r == is_satisfiable(rule, params, width, height, bounds)
           IN  IF r.sat
               THEN IF st.rules[BEST][Other(axis)] # ZeroRule
                    THEN [st EXCEPT !.rules[BEST][axis] = rule,
                                    !.values[BEST][axis] = r.value,
                                    !.stop = TRUE]
                    ELSE [st EXCEPT !.rules[BEST][axis] = rule,
                                    !.values[BEST][axis] = r.value,
                                    !.axes[BEST] = axis]
               ELSE IF st.rules[GOOD][axis] = ZeroRule
                    THEN IF st.rules[GOOD][Other(axis)] = ZeroRule
                         THEN [st EXCEPT !.rules[GOOD][axis] = rule,
                                         !.values[GOOD][axis] = r.value,
                                         !.axes[GOOD] = axis]
                         ELSE [st EXCEPT !.rules[GOOD][axis] = rule,
                                         !.values[GOOD][axis] = r.value]
                    ELSE st

\* variant of ScanStep without the else-if branch: a rule that is not the
\* best of its axis is forgotten instead of being kept as the fallback
ScanStepBestOnly(st, rule, params, width, height, bounds) ==
  LET axis == AxisIndex(rule)
  IN  IF axis < 0
      THEN st
      ELSE LET r == is_satisfiable(rule, params, width, height, bounds)
           IN  IF r.sat /\ st.rules[BEST][axis] = ZeroRule
               THEN IF st.rules[BEST][Other(axis)] # ZeroRule
                    THEN [st EXCEPT !.rules[BEST][axis] = rule,
                                    !.values[BEST][axis] = r.value,
                                    !.stop = TRUE]
                    ELSE [st EXCEPT !.rules[BEST][axis] = rule,
                                    !.values[BEST][axis] = r.value,
                                    !.axes[BEST] = axis]
               ELSE st

\* the body of the inner loop for one rule
ScanStep(st, rule, params, width, height, bounds) ==
  LET axis == AxisIndex(rule)
  IN  IF axis < 0
      THEN st
      ELSE LET r == is_satisfiable(rule, params, width, height, bounds)
           IN  IF r.sat /\ st.rules[BEST][axis] = ZeroRule
               THEN IF st.rules[BEST][Other(axis)] # ZeroRule
                    THEN [st EXCEPT !.rules[BEST][axis] = rule,
                                    !.values[BEST][axis] = r.value,
                                    !.stop = TRUE]
                    ELSE [st EXCEPT !.rules[BEST][axis] = rule,
                                    !.values[BEST][axis] = r.value,
                                    !.axes[BEST] = axis]
               ELSE IF st.rules[GOOD][axis] = ZeroRule
                    THEN IF st.rules[GOOD][Other(axis)] = ZeroRule
                         THEN [st EXCEPT !.rules[GOOD][axis] = rule,
                                         !.values[GOOD][axis] = r.value,
                                         !.axes[GOOD] = axis]
                         ELSE [st EXCEPT !.rules[GOOD][axis] = rule,
                                         !.values[GOOD][axis] = r.value]
                    ELSE st

RECURSIVE ScanFrom(_, _, _, _, _, _, _)
\* for (j = 0; j < arrays[i]->len; j++), left early by the break
ScanFrom(st, array, j, params, width, height, bounds) ==
  IF j > Len(array) \/ st.stop
  THEN st
  ELSE ScanFrom(ScanStep(st, array[j], params, width, height, bounds),
                array, j + 1, params, width, height, bounds)

ScanRules(array, params, width, height, bounds) ==
  ScanFrom(ScanStart, array, 1, params, width, height, bounds)

(***************************************************************************)
(* Second loop: the first (i, j, k), i and j ascending from BEST to GOOD   *)
(* and k descending from Y to X, whose primary and secondary slots are     *)
(* both filled.                                                            *)
(***************************************************************************)
\* the n-th iteration of the triple loop, n = 1 .. 8
SearchOrder(n) ==
  [i |-> (n - 1) \div 4, j |-> ((n - 1) \div 2) % 2, k |-> 1 - ((n - 1) % 2)]

\* the indices axes[PRIMARY][i] == k and axes[PRIMARY][i] != k
PrimaryAxis(p, t) == AsIndex(p.axes[t.i] = t.k)

\* variant of SecondaryAxis that indexes the secondary slots as the primary
\* ones
SecondaryAxisAsPrimary(p, t) == AsIndex(p.axes[t.i] = t.k)

SecondaryAxis(p, t) == AsIndex(p.axes[t.i] # t.k)

\* the condition of the if inside the triple loop
PairFound(p, s, t) ==
  /\ p.rules[t.i][PrimaryAxis(p, t)] # ZeroRule
  /\ s.rules[t.j][SecondaryAxis(p, t)] # ZeroRule

\* the out-parameters as the if's body writes them
PairResult(p, s, t) ==
  [ret |-> TRUE,
   primary_rule |-> p.rules[t.i][PrimaryAxis(p, t)],
   secondary_rule |-> s.rules[t.j][SecondaryAxis(p, t)],
   x |-> IF PrimaryAxis(p, t) = X
         THEN p.values[t.i][X] ELSE s.values[t.j][X],
   y |-> IF PrimaryAxis(p, t) = X
         THEN s.values[t.j][Y] ELSE p.values[t.i][Y],
   offset_x |-> 0,
   offset_y |-> 0]

\* success == FALSE: no out-parameter is written
NoResult ==
  [ret |-> FALSE,
   primary_rule |-> "unwritten", secondary_rule |-> "unwritten",
   x |-> "unwritten", y |-> "unwritten",
   offset_x |-> "unwritten", offset_y |-> "unwritten"]

\* variant of SelectPair whose outer loop stops after i = BEST
SelectPairBestPrimary(p, s) ==
  LET hits == {n \in 1..4 : PairFound(p, s, SearchOrder(n))}
  IN  IF hits = {}
      THEN NoResult
      ELSE PairResult(p, s,
             SearchOrder(CHOOSE n \in hits : \A m \in hits : n <= m))

SelectPair(p, s) ==
  LET hits == {n \in 1..8 : PairFound(p, s, SearchOrder(n))}
  IN  IF hits = {}
      THEN NoResult
      ELSE PairResult(p, s,
             SearchOrder(CHOOSE n \in hits : \A m \in hits : n <= m))

(***************************************************************************)
(* Final block: with bounds, push the window back inside, far edge first   *)
(* and near edge second, accumulating the displacement.                    *)
(***************************************************************************)
\* variant of ClampAxis whose far-edge test and target forget the window size
ClampAxisIgnoringSize(coord, offset, size, bmin, bsize) ==
  LET far == coord > bmin + bsize
      c1 == IF far THEN bmin + bsize ELSE coord
      o1 == IF far THEN offset + (bmin + bsize - coord) ELSE offset
      near == c1 < bmin
  IN  [coord |-> IF near THEN bmin ELSE c1,
       offset |-> IF near THEN o1 + (bmin - c1) ELSE o1]

\* variant of ClampAxis whose near-edge branch assigns the offset (=) where
\* the code accumulates it (+=)
ClampAxisOverwritingOffset(coord, offset, size, bmin, bsize) ==
  LET far == coord + size > bmin + bsize
      c1 == IF far THEN bmin + bsize - size ELSE coord
      o1 == IF far THEN offset + (bmin + bsize - size - coord) ELSE offset
      near == c1 < bmin
  IN  [coord |-> IF near THEN bmin ELSE c1,
       offset |-> IF near THEN bmin - c1 ELSE o1]

\* the two ifs of one axis, on (*x, *offset_x) or (*y, *offset_y)
ClampAxis(coord, offset, size, bmin, bsize) ==
  LET far == coord + size > bmin + bsize
      c1 == IF far THEN bmin + bsize - size ELSE coord
      o1 == IF far THEN offset + (bmin + bsize - size - coord) ELSE offset
      near == c1 < bmin
  IN  [coord |-> IF near THEN bmin ELSE c1,
       offset |-> IF near THEN o1 + (bmin - c1) ELSE o1]

ClampResult(res, width, height, bounds) ==
  LET cx == ClampAxis(res.x, res.offset_x, width, bounds.x, bounds.width)
      cy == ClampAxis(res.y, res.offset_y, height, bounds.y, bounds.height)
  IN  [res EXCEPT !.x = cx.coord, !.offset_x = cx.offset,
                  !.y = cy.coord, !.offset_y = cy.offset]

\* variant of gdk_attach_params_choose_position without its has_attach_rect
\* precondition
choose_position_unchecked(params, width, height, bounds) ==
  LET p == ScanRules(params.primary_rules, params, width, height, bounds)
      s == ScanRules(params.secondary_rules, params, width, height, bounds)
      res == SelectPair(p, s)
  IN  IF res.ret /\ bounds # NULL
      THEN ClampResult(res, width, height, bounds)
      ELSE res

gdk_attach_params_choose_position(params, width, height, bounds) ==
  IF ~params.has_attach_rect
  THEN NoResult
  ELSE LET p == ScanRules(params.primary_rules, params, width, height, bounds)
           s == ScanRules(params.secondary_rules, params, width, height, bounds)
           res == SelectPair(p, s)
       IN  IF res.ret /\ bounds # NULL
           THEN ClampResult(res, width, height, bounds)
           ELSE res

(***************************************************************************)
(* State.                                                                  *)
(*   heap[p]  the GdkAttachParams at address p: unallocated, live or freed; *)
(*            its primary_rules and secondary_rules are pointers into arrays*)
(*   arrays[a] the GArray at address a: unallocated, live or freed, and    *)
(*            the rules it holds                                           *)
(*   ctx[c]   the caller's callback context c: whether it was handed to a  *)
(*            params, the destroy_notify it was handed over with, and how  *)
(*            many times a destroy_notify has been run on it               *)
(*   log      what the most recent call did that its caller can observe:   *)
(*            return value and out-parameters, destroy_notify calls,       *)
(*            gdk_window_move calls, position callback calls, in order     *)
(***************************************************************************)
Ids == 1..MaxParams

Ctxs == 1..MaxCtx

Obj(status, params) == [status |-> status, params |-> params]

\* g_new0 (GdkAttachParams, 1): every field zero, no rule array yet
g_new0 ==
  [gdk_attach_params_new EXCEPT !.primary_rules = NULL,
                                !.secondary_rules = NULL]

Unallocated == Obj("unallocated", g_new0)

ArrayIds == 1..(2 * MaxParams)

Arr(status, data) == [status |-> status, data |-> data]

\* the addresses g_array_new returns next: the two lowest never used
FreshArray ==
  CHOOSE a \in ArrayIds :
    /\ arrays[a].status = "unallocated"
    /\ \A b \in ArrayIds : b < a => arrays[b].status # "unallocated"

NextFreshArray == FreshArray + 1

\* a params with the contents of its two rule arrays in place of the pointers
Deref(params) ==
  [params EXCEPT !.primary_rules = arrays[@.arr].data,
                 !.secondary_rules = arrays[@.arr].data]

Live(p) == heap[p].status = "live"

\* the address the allocator returns: the lowest one never used
FreshId == CHOOSE p \in Ids : heap[p].status = "unallocated" /\
                              \A q \in Ids : q < p => heap[q].status # "unallocated"

CanAllocate == \E p \in Ids : heap[p].status = "unallocated"

\* a context the caller has not handed to any params yet
FreshCtx == CHOOSE c \in Ctxs : ~ctx[c].issued /\
                                \A d \in Ctxs : d < c => ctx[d].issued

NewCtx == [issued |-> FALSE, notify |-> NULL, released |-> 0]

\* params->attach_destroy_notify (params->attach_user_data), when both are set
RunDestroyNotify(params) ==
  params.attach_user_data # NULL /\ params.attach_destroy_notify # NULL

Released(params) ==
  IF RunDestroyNotify(params)
  THEN [ctx EXCEPT ![params.attach_user_data.ctx].released = @ + 1]
  ELSE ctx

DestroyEvents(params) ==
  IF RunDestroyNotify(params)
  THEN <<[ev |-> "destroy_notify", user_data |-> params.attach_user_data]>>
  ELSE <<>>

(***************************************************************************)
(* Operations.                                                             *)
(***************************************************************************)
New ==
  /\ CanAllocate
  /\ heap' = [heap EXCEPT ![FreshId] =
                Obj("live", [g_new0 EXCEPT
                               !.primary_rules = ArrPtr(FreshArray),
                               !.secondary_rules = ArrPtr(NextFreshArray)])]
  /\ arrays' = [arrays EXCEPT ![FreshArray] = Arr("live", <<>>),
                              ![NextFreshArray] = Arr("live", <<>>)]
  /\ log' = <<>>
  /\ UNCHANGED ctx

\* variant of gdk_attach_params_copy that stops after the g_memdup: the copy
\* keeps the pointers to the source's arrays
gdk_attach_params_copy_shallow(params, primary, secondary) == params

\* the struct of the copy: g_memdup of the source, then the two pointers
\* replaced by those of the new arrays
gdk_attach_params_copy(params, primary, secondary) ==
  [params EXCEPT !.primary_rules = ArrPtr(primary),
                 !.secondary_rules = ArrPtr(secondary)]

\* the two new arrays receive the source's rules (g_array_append_vals)
Copy(src) ==
  /\ Live(src)
  /\ CanAllocate
  /\ heap' = [heap EXCEPT ![FreshId] =
                Obj("live", gdk_attach_params_copy(heap[src].params,
                                                   FreshArray, NextFreshArray))]
  /\ arrays' = [arrays EXCEPT
                  ![FreshArray] =
                    Arr("live", arrays[heap[src].params.primary_rules.arr].data),
                  ![NextFreshArray] =
                    Arr("live", arrays[heap[src].params.secondary_rules.arr].data)]
  /\ log' = <<[ev |-> "copy", src |-> src, ret |-> FreshId]>>
  /\ UNCHANGED ctx

\* the freed memory holds nothing the program may read again
Free(p) ==
  /\ Live(p)
  /\ ctx' = Released(heap[p].params)
  /\ log' = DestroyEvents(heap[p].params)
  /\ arrays' = [a \in ArrayIds |->
                  IF a \in {heap[p].params.primary_rules.arr,
                            heap[p].params.secondary_rules.arr}
                  THEN Arr("freed", <<>>) ELSE arrays[a]]
  /\ heap' = [heap EXCEPT ![p] = Obj("freed", g_new0)]

SetAttachOrigin(p, x, y) ==
  /\ Live(p)
  /\ heap' = [heap EXCEPT ![p].params.origin_x = x, ![p].params.origin_y = y]
  /\ log' = <<>>
  /\ UNCHANGED <<arrays, ctx>>

SetAttachRect(p, rectangle) ==
  /\ Live(p)
  /\ heap' = IF rectangle # NULL
             THEN [heap EXCEPT ![p].params.has_attach_rect = TRUE,
                               ![p].params.attach_rect = rectangle]
             ELSE [heap EXCEPT ![p].params.has_attach_rect = FALSE]
  /\ log' = <<>>
  /\ UNCHANGED <<arrays, ctx>>

SetAttachMargin(p, margin) ==
  /\ Live(p)
  /\ heap' = [heap EXCEPT ![p].params.attach_margin =
                IF margin # NULL THEN margin ELSE ZeroBorder]
  /\ log' = <<>>
  /\ UNCHANGED <<arrays, ctx>>

SetWindowMargin(p, margin) ==
  /\ Live(p)
  /\ heap' = [heap EXCEPT ![p].params.window_margin =
                IF margin # NULL THEN margin ELSE ZeroBorder]
  /\ log' = <<>>
  /\ UNCHANGED <<arrays, ctx>>

SetWindowPadding(p, padding) ==
  /\ Live(p)
  /\ heap' = [heap EXCEPT ![p].params.window_padding =
                IF padding # NULL THEN padding ELSE ZeroBorder]
  /\ log' = <<>>
  /\ UNCHANGED <<arrays, ctx>>

SetWindowOffset(p, x, y) ==
  /\ Live(p)
  /\ heap' = [heap EXCEPT ![p].params.offset_x = x, ![p].params.offset_y = y]
  /\ log' = <<>>
  /\ UNCHANGED <<arrays, ctx>>

RECURSIVE add_rules_past_zero(_, _)
\* variant of add_rules that skips a zero argument and goes on to the end of
\* the arguments the caller wrote
add_rules_past_zero(array, args) ==
  IF args = <<>>
  THEN array
  ELSE IF Head(args) = ZeroRule
       THEN add_rules_past_zero(array, Tail(args))
       ELSE add_rules_past_zero(Append(array, Head(args)), Tail(args))

RECURSIVE add_rules(_, _)
\* for (rule = first_rule; rule; rule = va_arg (args, GdkAttachRule))
add_rules(array, args) ==
  IF args = <<>> \/ Head(args) = ZeroRule
  THEN array
  ELSE add_rules(Append(array, Head(args)), Tail(args))

RuleCount(params) == Len(params.primary_rules) + Len(params.secondary_rules)

\* args: first_rule followed by the variadic arguments the caller wrote
AddPrimaryRules(p, args) ==
  /\ Live(p)
  /\ RuleCount(Deref(heap[p].params)) + Len(args) - 1 <= MaxRules
  /\ arrays' = [arrays EXCEPT
                  ![heap[p].params.primary_rules.arr].data = add_rules(@, args)]
  /\ log' = <<[ev |-> "add_primary_rules", params |-> p, args |-> args]>>
  /\ UNCHANGED <<heap, ctx>>

AddSecondaryRules(p, args) ==
  /\ Live(p)
  /\ RuleCount(Deref(heap[p].params)) + Len(args) - 1 <= MaxRules
  /\ arrays' = [arrays EXCEPT
                  ![heap[p].params.secondary_rules.arr].data = add_rules(@, args)]
  /\ log' = <<[ev |-> "add_secondary_rules", params |-> p, args |-> args]>>
  /\ UNCHANGED <<heap, ctx>>

\* for (i = 0; i < array->len; i++) func (&g_array_index (array, i), user_data)
rules_foreach(array) == [n \in 1..Len(array) |-> [ev |-> "func", rule |-> array[n]]]

PrimaryRulesForeach(p) ==
  /\ Live(p)
  /\ log' = <<[ev |-> "primary_rules_foreach", params |-> p]>>
            \o rules_foreach(arrays[heap[p].params.primary_rules.arr].data)
  /\ UNCHANGED <<heap, arrays, ctx>>

SecondaryRulesForeach(p) ==
  /\ Live(p)
  /\ log' = <<[ev |-> "secondary_rules_foreach", params |-> p]>>
            \o rules_foreach(arrays[heap[p].params.secondary_rules.arr].data)
  /\ UNCHANGED <<heap, arrays, ctx>>

\* the caller passes NULL, a context of its own it has not handed over yet,
\* or the context this params already holds
UserDataArgs(p) ==
  {NULL}
  \cup (IF \E c \in Ctxs : ~ctx[c].issued THEN {CtxPtr(FreshCtx)} ELSE {})
  \cup {heap[p].params.attach_user_data}

SetPositionCallback(p, callback, user_data, destroy_notify) ==
  /\ Live(p)
  /\ user_data \in UserDataArgs(p)
  /\ LET params == heap[p].params
         handed == IF user_data # NULL /\ ~ctx[user_data.ctx].issued
                   THEN [Released(params) EXCEPT
                           ![user_data.ctx].issued = TRUE,
                           ![user_data.ctx].notify = destroy_notify]
                   ELSE Released(params)
     IN  IF user_data # params.attach_user_data
         THEN /\ arrays' = arrays
              /\ ctx' = handed
              /\ log' = DestroyEvents(params)
              /\ heap' = [heap EXCEPT
                            ![p].params.attach_callback = callback,
                            ![p].params.attach_user_data = user_data,
                            ![p].params.attach_destroy_notify = destroy_notify]
         ELSE /\ arrays' = arrays
              /\ ctx' = ctx
              /\ log' = IF user_data # NULL
                        THEN <<[ev |-> "g_warning"]>> ELSE <<>>
              /\ heap' = [heap EXCEPT ![p].params.attach_callback = callback]

ChoosePosition(p, width, height, bounds) ==
  /\ Live(p)
  /\ log' = <<[ev |-> "choose_position", params |-> p,
               width |-> width, height |-> height, bounds |-> bounds,
               out |-> gdk_attach_params_choose_position(
                         Deref(heap[p].params), width, height, bounds)]>>
  /\ UNCHANGED <<heap, arrays, ctx>>

\* gdk_attach_params_choose_position_for_window: the window's size and the
\* work area of the monitor at the rectangle's centre come from the screen
gdk_attach_params_choose_position_for_window(params, window) ==
  IF ~params.has_attach_rect
  THEN NoResult
  ELSE gdk_attach_params_choose_position(
         params, window.width, window.height, window.workarea)

\* variant of move_window_events that reports to the callback before moving
move_window_events_callback_first(p, params, window) ==
  IF ~params.has_attach_rect
  THEN <<>>
  ELSE LET out == gdk_attach_params_choose_position_for_window(params, window)
       IN  IF ~out.ret
           THEN <<>>
           ELSE (IF params.attach_callback # NULL
                 THEN <<[ev |-> "attach_callback", window |-> window,
                         params |-> p, x |-> out.x, y |-> out.y,
                         offset_x |-> out.offset_x,
                         offset_y |-> out.offset_y,
                         arg7 |-> out.primary_rule,
                         arg8 |-> out.secondary_rule,
                         user_data |-> params.attach_user_data]>>
                 ELSE <<>>)
                \o <<[ev |-> "gdk_window_move", window |-> window,
                      x |-> out.x, y |-> out.y]>>

\* what gdk_attach_params_move_window does, in order
move_window_events(p, params, window) ==
  IF ~params.has_attach_rect
  THEN <<>>
  ELSE LET out == gdk_attach_params_choose_position_for_window(params, window)
       IN  IF ~out.ret
           THEN <<>>
           ELSE <<[ev |-> "gdk_window_move", window |-> window,
                   x |-> out.x, y |-> out.y]>>
                \o (IF params.attach_callback # NULL
                    THEN <<[ev |-> "attach_callback", window |-> window,
                            params |-> p, x |-> out.x, y |-> out.y,
                            offset_x |-> out.offset_x,
                            offset_y |-> out.offset_y,
                            arg7 |-> out.primary_rule,
                            arg8 |-> out.secondary_rule,
                            user_data |-> params.attach_user_data]>>
                    ELSE <<>>)

MoveWindow(p, window) ==
  /\ Live(p)
  /\ log' = <<[ev |-> "move_window", params |-> p, window |-> window]>>
            \o move_window_events(p, Deref(heap[p].params), window)
  /\ UNCHANGED <<heap, arrays, ctx>>

(***************************************************************************)
(* Arguments the callers of the model pass.                                *)
(***************************************************************************)
RuleSet ==
  {Rule("X", "MAX", "MIN"), Rule("X", "MID", "MID"),
   Rule("Y", "MIN", "MAX"), Rule("Y", "MIN", "MIN"),
   Rule("NONE", "MIN", "MIN"), Rule("X", "NONE", "NONE")}

WorkAreas == {GdkRectangle(1, 1, 4, 4)}

BoundsArgs == {NULL} \cup WorkAreas

WindowSizes == {2, 5}

AttachRects == {GdkRectangle(2, 2, 3, 3)}

OriginArgs == {<<0, 0>>, <<1, 1>>}

OffsetArgs == {<<0, 0>>, <<-2, 1>>}

BorderArgs == {NULL, GdkBorder(1, 2, 1, 2)}

\* where the attachment rectangle's coordinate system and the window offset
\* put the window: untouched, or shifted by both
PlacementArgs ==
  {[origin |-> <<0, 0>>, offset |-> <<0, 0>>],
   [origin |-> <<1, 1>>, offset |-> <<-2, 1>>]}

UserDataPtrs == {NULL} \cup {CtxPtr(c) : c \in Ctxs}

CallbackArgs == {NULL, FnPtr("position_cb")}

NotifyArgs == {NULL, FnPtr("g_free")}

\* the rule arrays of at most n rules
RuleLists(n) == UNION {[1..k -> RuleSet] : k \in 0..n}

(***************************************************************************)
(* SolveSpec: the solver as a function of its arguments.  The params is    *)
(* any one the setters can build; one call is made on it.                  *)
(***************************************************************************)
BorderOf(margin) == IF margin # NULL THEN margin ELSE ZeroBorder

SolveParams ==
  {[gdk_attach_params_new EXCEPT
      !.has_attach_rect = TRUE, !.attach_rect = r,
      !.origin_x = pl.origin[1], !.origin_y = pl.origin[2],
      !.offset_x = pl.offset[1], !.offset_y = pl.offset[2],
      !.attach_margin = BorderOf(am), !.window_margin = BorderOf(wm),
      !.primary_rules = rl[1], !.secondary_rules = rl[2]] :
     r \in AttachRects, pl \in PlacementArgs,
     am \in BorderArgs, wm \in BorderArgs,
     rl \in {l \in RuleLists(MaxRules) \X RuleLists(MaxRules) :
               Len(l[1]) + Len(l[2]) <= MaxRules}}

SolveInit ==
  /\ \E params \in SolveParams :
       /\ heap = [p \in Ids |->
                    IF p = 1
                    THEN Obj("live", [params EXCEPT
                                        !.primary_rules = ArrPtr(1),
                                        !.secondary_rules = ArrPtr(2)])
                    ELSE Unallocated]
       /\ arrays = [a \in ArrayIds |->
                      IF a = 1 THEN Arr("live", params.primary_rules)
                      ELSE IF a = 2 THEN Arr("live", params.secondary_rules)
                      ELSE Arr("unallocated", <<>>)]
  /\ ctx = [c \in Ctxs |-> NewCtx]
  /\ log = <<>>

SolveNext ==
  /\ log = <<>>
  /\ \E w \in WindowSizes, h \in WindowSizes, b \in BoundsArgs :
       ChoosePosition(1, w, h, b)

SolveSpec == SolveInit /\ [][SolveNext]_vars

(***************************************************************************)
(* Spec: one params, from gdk_attach_params_new on, driven through every   *)
(* setter in any order, with solves and window moves in between.           *)
(***************************************************************************)
\* first_rule and the variadic arguments, as the caller wrote them
PrimaryArgs == {<<Rule("X", "MAX", "MIN"), ZeroRule, Rule("X", "MID", "MID")>>}

SecondaryArgs == {<<Rule("Y", "MIN", "MAX"), ZeroRule>>}

\* the sizes the solver is asked about
SizeArgs == {<<2, 2>>, <<5, 5>>}

SizedWindows ==
  {[width |-> sz[1], height |-> sz[2], workarea |-> b] :
     sz \in SizeArgs, b \in WorkAreas}

\* the state gdk_attach_params_new leaves: the params at address 1 with its
\* arrays at addresses 1 and 2
Init ==
  /\ heap = [p \in Ids |->
               IF p = 1
               THEN Obj("live", [g_new0 EXCEPT !.primary_rules = ArrPtr(1),
                                               !.secondary_rules = ArrPtr(2)])
               ELSE Unallocated]
  /\ arrays = [a \in ArrayIds |-> IF a \in {1, 2} THEN Arr("live", <<>>)
                                  ELSE Arr("unallocated", <<>>)]
  /\ ctx = [c \in Ctxs |-> NewCtx]
  /\ log = <<>>

Next ==
  \E p \in Ids :
    \/ \E o \in OriginArgs : SetAttachOrigin(p, o[1], o[2])
    \/ \E r \in {NULL} \cup AttachRects : SetAttachRect(p, r)
    \/ \E m \in BorderArgs : SetAttachMargin(p, m)
    \/ \E m \in BorderArgs : SetWindowMargin(p, m)
    \/ \E m \in BorderArgs : SetWindowPadding(p, m)
    \/ \E d \in OffsetArgs : SetWindowOffset(p, d[1], d[2])
    \/ \E args \in PrimaryArgs : AddPrimaryRules(p, args)
    \/ \E args \in SecondaryArgs : AddSecondaryRules(p, args)
    \/ \E cb \in CallbackArgs, ud \in UserDataPtrs :
         SetPositionCallback(p, cb, ud, FnPtr("g_free"))
    \/ \E sz \in SizeArgs, b \in BoundsArgs :
         ChoosePosition(p, sz[1], sz[2], b)
    \/ \E window \in SizedWindows : MoveWindow(p, window)

Spec == Init /\ [][Next]_vars

(***************************************************************************)
(* OwnershipSpec: params objects created, copied and freed, and their      *)
(* position callbacks set, in any order.                                   *)
(***************************************************************************)
OwnershipInit ==
  /\ heap = [p \in Ids |-> Unallocated]
  /\ arrays = [a \in ArrayIds |-> Arr("unallocated", <<>>)]
  /\ ctx = [c \in Ctxs |-> NewCtx]
  /\ log = <<>>

OwnershipNext ==
  \/ New
  \/ \E p \in Ids : Copy(p)
  \/ \E p \in Ids : Free(p)
  \/ \E p \in Ids :
       \E cb \in CallbackArgs, ud \in UserDataPtrs, dn \in NotifyArgs :
         SetPositionCallback(p, cb, ud, dn)

OwnershipSpec == OwnershipInit /\ [][OwnershipNext]_vars

(***************************************************************************)
(* CopySpec: a params and its copies, each set up further on its own.      *)
(***************************************************************************)
CopySecondaryArgs ==
  {<<Rule("Y", "MIN", "MAX"), ZeroRule, Rule("Y", "MIN", "MIN")>>}

CopyNext ==
  \E p \in Ids :
    \/ \E r \in AttachRects : SetAttachRect(p, r)
    \/ \E args \in PrimaryArgs : AddPrimaryRules(p, args)
    \/ \E args \in CopySecondaryArgs : AddSecondaryRules(p, args)
    \/ Copy(p)

CopySpec == Init /\ [][CopyNext]_vars

(***************************************************************************)
(* RulesSpec: one params whose rule lists are extended and enumerated.     *)
(***************************************************************************)
\* first_rule and the variadic arguments: a zero in the middle, at the end
\* after two rules and after one, and in first place
RuleArgs ==
  {<<Rule("X", "MAX", "MIN"), ZeroRule, Rule("X", "MID", "MID")>>,
   <<Rule("Y", "MIN", "MAX"), Rule("X", "MAX", "MIN"), ZeroRule>>,
   <<Rule("Y", "MIN", "MIN"), ZeroRule>>,
   <<ZeroRule, Rule("Y", "MIN", "MIN")>>}

RulesNext ==
  \E p \in Ids :
    \/ \E args \in RuleArgs : AddPrimaryRules(p, args)
    \/ \E args \in RuleArgs : AddSecondaryRules(p, args)
    \/ PrimaryRulesForeach(p)
    \/ SecondaryRulesForeach(p)

RulesSpec == Init /\ [][RulesNext]_vars

(***************************************************************************)
(* Properties.  They read the most recent call from log.                   *)
(***************************************************************************)
Call == log[1]

\* the most recent call was gdk_attach_params_choose_position
Solved == log # <<>> /\ Call.ev = "choose_position"

\* ... and it returned TRUE
Succeeded == Solved /\ Call.out.ret

\* the params of the most recent call; no solve or move changes it
CallParams == Deref(heap[Call.params].params)

AxisNames == {"X", "Y"}

\* the solve's arguments and results taken per axis
SizeOn(axis) == IF axis = "X" THEN Call.width ELSE Call.height

MinOn(axis) == IF axis = "X" THEN Call.bounds.x ELSE Call.bounds.y

SpanOn(axis) == IF axis = "X" THEN Call.bounds.width ELSE Call.bounds.height

MaxOn(axis) == MinOn(axis) + SpanOn(axis)

CoordOn(axis) == IF axis = "X" THEN Call.out.x ELSE Call.out.y

OffsetOn(axis) == IF axis = "X" THEN Call.out.offset_x ELSE Call.out.offset_y

\* whichever of the two reported rules lies on the axis
ReportedOn(axis) ==
  IF Call.out.primary_rule.axis = axis
  THEN Call.out.primary_rule ELSE Call.out.secondary_rule

\* the candidate coordinate of that rule, before any clamp
IdealOn(axis) ==
  RuleValue(ReportedOn(axis), CallParams, Call.width, Call.height)

\* C1 - Bounds containment: after every successful solve with bounds, on each
\* axis where the window is not larger than the bounds, the returned
\* coordinate places the window inside the bounds:
\* bounds.min <= coord and coord + size <= bounds.max.
BoundsContainment ==
  (Succeeded /\ Call.bounds # NULL) =>
    \A axis \in AxisNames :
      SizeOn(axis) <= SpanOn(axis) =>
        /\ MinOn(axis) <= CoordOn(axis)
        /\ CoordOn(axis) + SizeOn(axis) <= MaxOn(axis)

\* a solve whose candidate lay outside on both axes and was pushed back
BoundsContainmentWitness ==
  /\ Succeeded
  /\ Call.bounds # NULL
  /\ \A axis \in AxisNames :
       /\ SizeOn(axis) <= SpanOn(axis)
       /\ OffsetOn(axis) # 0
  /\ OffsetOn("X") < 0
  /\ OffsetOn("Y") > 0

\* C2 - Offset accounting: after every successful solve, on each axis the
\* reported offset is exactly the returned coordinate minus the pre-clamp
\* candidate of the reported rule lying on that axis, whether no clamp, one
\* clamp or both clamps fired, and both offsets are 0 without bounds.
OffsetAccounting ==
  Succeeded =>
    /\ \A axis \in AxisNames : OffsetOn(axis) = CoordOn(axis) - IdealOn(axis)
    /\ Call.bounds = NULL => (OffsetOn("X") = 0 /\ OffsetOn("Y") = 0)

\* a solve where the far-edge clamp and then the near-edge clamp both fired
\* on the x axis and left a displacement
OffsetAccountingWitness ==
  /\ Succeeded
  /\ Call.bounds # NULL
  /\ IdealOn("X") + SizeOn("X") > MaxOn("X")
  /\ MaxOn("X") - SizeOn("X") < MinOn("X")
  /\ OffsetOn("X") # 0
  /\ CoordOn("X") = MinOn("X")

\* the least element of a non-empty set of numbers
Least(S) == CHOOSE n \in S : \A m \in S : n <= m

Abs(n) == IF n < 0 THEN -n ELSE n

\* whether the window placed by a rule lies inside the bounds of the call
Fits(rule) ==
  is_satisfiable(rule, CallParams, Call.width, Call.height, Call.bounds).sat

(***************************************************************************)
(* The search as the documentation of gdk_attach_params_add_primary_rules  *)
(* describes it: each primary rule in the order added; if it is            *)
(* satisfiable, each secondary rule in order until one is satisfiable and  *)
(* on the other axis; if none, the next primary rule.                      *)
(***************************************************************************)
DocSecondaries(primary) ==
  {j \in 1..Len(CallParams.secondary_rules) :
     /\ Fits(CallParams.secondary_rules[j])
     /\ CallParams.secondary_rules[j].axis # primary.axis}

DocPrimaries ==
  {i \in 1..Len(CallParams.primary_rules) :
     /\ Fits(CallParams.primary_rules[i])
     /\ DocSecondaries(CallParams.primary_rules[i]) # {}}

DocPrimary == CallParams.primary_rules[Least(DocPrimaries)]

DocSecondary == CallParams.secondary_rules[Least(DocSecondaries(DocPrimary))]

DocRuleOn(axis) == IF DocPrimary.axis = axis THEN DocPrimary ELSE DocSecondary

\* C5 - Documented priority search: whenever the documented search finds a
\* pair, the solve returns TRUE, reports exactly that primary rule and that
\* secondary rule, places the window at their two candidate coordinates and
\* reports both offsets as 0.
PrioritySearch ==
  (Solved /\ DocPrimaries # {}) =>
    /\ Call.out.ret
    /\ Call.out.primary_rule = DocPrimary
    /\ Call.out.secondary_rule = DocSecondary
    /\ \A axis \in AxisNames :
         /\ CoordOn(axis) = RuleValue(DocRuleOn(axis), CallParams,
                                      Call.width, Call.height)
         /\ OffsetOn(axis) = 0

\* a solve with bounds where the first primary rule fits but has no fitting
\* secondary rule on the other axis, so that the search went on to a later
\* primary rule
PrioritySearchWitness ==
  /\ Solved
  /\ Call.bounds # NULL
  /\ DocPrimaries # {}
  /\ Least(DocPrimaries) > 1
  /\ Fits(CallParams.primary_rules[1])
  /\ Call.out.primary_rule = DocPrimary

\* C6 - Oversized-window clamp policy: after a successful solve with bounds,
\* on an axis where the window is larger than the bounds the returned
\* coordinate is bounds.min or bounds.max - size, whichever is closer to the
\* unclamped candidate; on an axis where it is not larger the returned
\* coordinate is the candidate clamped to [bounds.min, bounds.max - size].
\* Stated for the solves that report well-formed rules.
NearerEdgeClamp ==
  (Succeeded /\ Call.bounds # NULL
     /\ \A axis \in AxisNames : ReportedOn(axis).rect # "NONE"
                                /\ ReportedOn(axis).win # "NONE") =>
    \A axis \in AxisNames :
      LET lo == MaxOn(axis) - SizeOn(axis)
          hi == MinOn(axis)
          c == IdealOn(axis)
      IN  IF SizeOn(axis) > SpanOn(axis)
          THEN /\ CoordOn(axis) \in {lo, hi}
               /\ Abs(CoordOn(axis) - c) <= Abs(lo - c)
               /\ Abs(CoordOn(axis) - c) <= Abs(hi - c)
          ELSE CoordOn(axis) = (IF c < hi THEN hi ELSE IF c > lo THEN lo ELSE c)

\* the primary list holds a rule of one axis and the secondary list a rule
\* of the other axis
RulesForBothAxes ==
  \E i \in 1..Len(CallParams.primary_rules),
     j \in 1..Len(CallParams.secondary_rules) :
    /\ CallParams.primary_rules[i].axis \in AxisNames
    /\ CallParams.secondary_rules[j].axis \in AxisNames
    /\ CallParams.primary_rules[i].axis # CallParams.secondary_rules[j].axis

\* no rule of either list fits inside the bounds on the axis
NothingFitsOn(axis) ==
  /\ Call.bounds # NULL
  /\ \A i \in 1..Len(CallParams.primary_rules) :
       CallParams.primary_rules[i].axis = axis =>
         ~Fits(CallParams.primary_rules[i])
  /\ \A j \in 1..Len(CallParams.secondary_rules) :
       CallParams.secondary_rules[j].axis = axis =>
         ~Fits(CallParams.secondary_rules[j])

\* C9 as stated - No in-bounds solution is not an error: when bounds are
\* supplied, rules exist for both axes and no candidate on an axis fits
\* inside the bounds, the solve succeeds and reports a non-zero offset on
\* that axis.
NoFitNonZeroOffset ==
  \A axis \in AxisNames :
    (Solved /\ CallParams.has_attach_rect /\ RulesForBothAxes
       /\ NothingFitsOn(axis)) =>
      /\ Call.out.ret
      /\ OffsetOn(axis) # 0

\* C9 as amended - under the same conditions the solve succeeds, and the
\* offset it reports on that axis is non-zero except in one case, where it
\* is 0: the window is larger than the bounds on that axis and the candidate
\* lies exactly at bounds.min.
NoFitStillSolved ==
  \A axis \in AxisNames :
    (Solved /\ CallParams.has_attach_rect /\ RulesForBothAxes
       /\ NothingFitsOn(axis)) =>
      /\ Call.out.ret
      /\ OffsetOn(axis) = 0 <=>
           (SizeOn(axis) > SpanOn(axis) /\ IdealOn(axis) = MinOn(axis))

\* a solve where nothing fits on the y axis although the window is not
\* larger than the bounds there, and the solve succeeded with a y offset
NoFitStillSolvedWitness ==
  /\ Solved
  /\ CallParams.has_attach_rect
  /\ RulesForBothAxes
  /\ NothingFitsOn("Y")
  /\ SizeOn("Y") <= SpanOn("Y")
  /\ Call.out.ret
  /\ OffsetOn("Y") # 0

\* a rule with its unknown rectangle-side or window-side component replaced
\* by the centre component
AsCenter(rule) ==
  [rule EXCEPT !.rect = IF @ = "NONE" THEN "MID" ELSE @,
               !.win = IF @ = "NONE" THEN "MID" ELSE @]

RECURSIVE Degraded(_)
\* a rule list without its rules of invalid axis, the others taken AsCenter
Degraded(array) ==
  IF array = <<>>
  THEN <<>>
  ELSE IF Head(array).axis \in AxisNames
       THEN <<AsCenter(Head(array))>> \o Degraded(Tail(array))
       ELSE Degraded(Tail(array))

\* C10 - Malformed rule bits degrade to Center and are never fatal: every
\* solve returns what it returns on the same input with each rule of
\* invalid axis left out and each unknown rectangle-side or window-side
\* component replaced by the centre component: the same success, and on
\* success the same coordinates and offsets.
DegradeToCenter ==
  Solved =>
    LET ref == gdk_attach_params_choose_position(
                 [CallParams EXCEPT
                    !.primary_rules = Degraded(@),
                    !.secondary_rules = Degraded(@)],
                 Call.width, Call.height, Call.bounds)
    IN  /\ Call.out.ret = ref.ret
        /\ Call.out.ret =>
             /\ Call.out.x = ref.x
             /\ Call.out.y = ref.y
             /\ Call.out.offset_x = ref.offset_x
             /\ Call.out.offset_y = ref.offset_y

\* the most recent call was gdk_attach_params_move_window
Moved == log # <<>> /\ Call.ev = "move_window"

\* the positions in log of the events of one kind
EventsOf(kind) == {n \in 1..Len(log) : log[n].ev = kind}

\* C3 - Callback-context ownership: over any sequence of new,
\* set_position_callback, copy and free, no callback context is released
\* more than once: not on replacement and again on destruction, and not once
\* by the original and once again by a copy.
ExclusiveOwnership == \A c \in Ctxs : ctx[c].released <= 1

\* C4 - Attachment rectangle precondition: whenever the params holds no
\* valid attachment rectangle (never set, or last set to NULL), a solve
\* returns FALSE, and gdk_attach_params_move_window neither moves the window
\* nor invokes the position callback.
RectPrecondition ==
  /\ (Solved /\ ~CallParams.has_attach_rect) => ~Call.out.ret
  /\ (Moved /\ ~CallParams.has_attach_rect) =>
       /\ EventsOf("gdk_window_move") = {}
       /\ EventsOf("attach_callback") = {}

\* a move attempted on a params with rules in both lists and a callback,
\* whose attachment rectangle was set and then reset with NULL
RectPreconditionWitness ==
  /\ Moved
  /\ ~CallParams.has_attach_rect
  /\ CallParams.attach_rect \in AttachRects
  /\ CallParams.primary_rules # <<>>
  /\ CallParams.secondary_rules # <<>>
  /\ CallParams.attach_callback # NULL
  /\ Len(log) = 1

\* C7 - Result delivery: in gdk_attach_params_move_window a registered
\* position callback is invoked exactly when the window was moved, after the
\* move and at most once, with the window, the params, the x and y the
\* window was moved to, the two offsets of the solve and the user context
\* stored on the params; without a callback the window is still moved.
ResultDelivery ==
  Moved =>
    LET out == gdk_attach_params_choose_position_for_window(
                 CallParams, Call.window)
        moves == EventsOf("gdk_window_move")
        calls == EventsOf("attach_callback")
    IN  /\ Cardinality(calls) <= 1
        /\ Cardinality(moves) <= 1
        /\ (CallParams.has_attach_rect /\ out.ret) => moves # {}
        /\ \A m \in moves : log[m].window = Call.window
        /\ (CallParams.attach_callback # NULL /\ moves # {}) => calls # {}
        /\ \A n \in calls :
             /\ CallParams.attach_callback # NULL
             /\ \E m \in moves : /\ m < n
                                 /\ log[n].x = log[m].x
                                 /\ log[n].y = log[m].y
             /\ log[n].window = Call.window
             /\ log[n].params = Call.params
             /\ log[n].offset_x = out.offset_x
             /\ log[n].offset_y = out.offset_y
             /\ log[n].user_data = CallParams.attach_user_data

\* a move that pushed the window back inside the work area and reported it
\* to the callback together with a user context
ResultDeliveryWitness ==
  /\ Moved
  /\ \E n \in EventsOf("attach_callback") :
       /\ log[n].offset_x # 0
       /\ log[n].user_data # NULL
       /\ n = 3

\* the first rule given for an axis: the candidate tried before any fallback
FirstRuleOn(axis) ==
  LET ps == {i \in 1..Len(CallParams.primary_rules) :
               CallParams.primary_rules[i].axis = axis}
      ss == {j \in 1..Len(CallParams.secondary_rules) :
               CallParams.secondary_rules[j].axis = axis}
  IN  IF ps # {}
      THEN CallParams.primary_rules[Least(ps)]
      ELSE CallParams.secondary_rules[Least(ss)]

\* that candidate places the window fully inside the work area
FirstCandidateFits(axis) ==
  is_satisfiable(FirstRuleOn(axis), CallParams, Call.window.width,
                 Call.window.height, Call.window.workarea).sat

\* C8 - Flip only when beneficial: GdkAttachCallback declares its 7th and
\* 8th arguments as the gboolean flipped_x and flipped_y.  Whenever the
\* callback is invoked and the first candidate of an axis fits inside the
\* bounds, the flag delivered for that axis is false, that is, zero.
FlipOnlyWhenBeneficial ==
  Moved =>
    \A n \in EventsOf("attach_callback") :
      /\ FirstCandidateFits("X") => log[n].arg7 = ZeroRule
      /\ FirstCandidateFits("Y") => log[n].arg8 = ZeroRule

\* the rules held by the params of the call, both lists together
RulesOfCall ==
  {CallParams.primary_rules[i] : i \in 1..Len(CallParams.primary_rules)}
  \cup {CallParams.secondary_rules[j] :
          j \in 1..Len(CallParams.secondary_rules)}

\* a rule with a valid axis and valid rectangle-side and window-side components
WellFormed(rule) ==
  /\ rule.axis \in AxisNames
  /\ rule.rect \in {"MIN", "MID", "MAX"}
  /\ rule.win \in {"MIN", "MID", "MAX"}

\* n / 2 rounded toward zero
TowardZero(n) == IF n >= 0 THEN n \div 2 ELSE -((-n) \div 2)

\* the candidate of a rule as documented, for margins all zero
PlainCandidate(rule, params, width, height) ==
  LET x == rule.axis = "X"
      origin == IF x THEN params.origin_x ELSE params.origin_y
      pos == IF x THEN params.attach_rect.x ELSE params.attach_rect.y
      rsize == IF x THEN params.attach_rect.width
               ELSE params.attach_rect.height
      wsize == IF x THEN width ELSE height
      offset == IF x THEN params.offset_x ELSE params.offset_y
  IN  origin + pos
      + (CASE rule.rect = "MIN" -> 0
           [] rule.rect = "MID" -> TowardZero(rsize)
           [] rule.rect = "MAX" -> rsize)
      - (CASE rule.win = "MIN" -> 0
           [] rule.win = "MID" -> TowardZero(wsize)
           [] rule.win = "MAX" -> wsize)
      + offset

\* the worked example: rectangle {100,100,50,20}, centre to centre on X and
\* bottom to top on Y
ExampleParams ==
  [gdk_attach_params_new EXCEPT
     !.has_attach_rect = TRUE,
     !.attach_rect = GdkRectangle(100, 100, 50, 20),
     !.primary_rules = <<Rule("Y", "MAX", "MIN")>>,
     !.secondary_rules = <<Rule("X", "MID", "MID")>>]

\* what the solver returns on the worked example
ExampleResult ==
  gdk_attach_params_choose_position(ExampleParams, 200, 100,
                                    GdkRectangle(0, 0, 400, 300))

\* C11 - Candidate arithmetic: with all margins zero, for every well-formed
\* rule of the params the candidate is origin + rect.pos + {0, rect.size/2,
\* rect.size} - {0, window.size/2, window.size} + offset with truncating
\* halving, and the rule is satisfiable exactly when bounds is NULL or
\* bounds.min <= candidate and candidate + window.size <= bounds.max; the
\* worked example, a 200x100 window in bounds {0,0,400,300}, yields (25,120)
\* with zero offsets.
CandidateArithmetic ==
  /\ (Solved /\ CallParams.attach_margin = ZeroBorder
        /\ CallParams.window_margin = ZeroBorder) =>
       \A rule \in RulesOfCall :
         WellFormed(rule) =>
           LET c == PlainCandidate(rule, CallParams, Call.width, Call.height)
               r == is_satisfiable(rule, CallParams, Call.width, Call.height,
                                   Call.bounds)
               size == IF rule.axis = "X" THEN Call.width ELSE Call.height
           IN  /\ r.value = c
               /\ r.sat <=> (\/ Call.bounds = NULL
                             \/ /\ MinOn(rule.axis) <= c
                                /\ c + size <= MaxOn(rule.axis))
  /\ ExampleResult.ret
  /\ ExampleResult.x = 25 /\ ExampleResult.y = 120
  /\ ExampleResult.offset_x = 0 /\ ExampleResult.offset_y = 0

\* a solve with bounds, zero margins and a shifted origin and offset, for a
\* window of odd size, where a centre-to-centre rule was the one reported
\* for the x axis and did not fit
CandidateArithmeticWitness ==
  /\ Succeeded
  /\ Call.bounds # NULL
  /\ CallParams.attach_margin = ZeroBorder
  /\ CallParams.window_margin = ZeroBorder
  /\ CallParams.offset_x # 0
  /\ Call.width = 5
  /\ ReportedOn("X") = Rule("X", "MID", "MID")
  /\ OffsetOn("X") # 0

\* C12 - Non-conflicting result pair: whenever a solve returns TRUE, the
\* reported primary rule is in the primary list, the reported secondary rule
\* is in the secondary list, one of the two lies on X and the other on Y,
\* and the returned x is the (clamped) candidate of the one on X and the
\* returned y that of the one on Y.
NonConflictingPair ==
  Succeeded =>
    LET pr == Call.out.primary_rule
        sr == Call.out.secondary_rule
    IN  /\ \E i \in 1..Len(CallParams.primary_rules) :
             CallParams.primary_rules[i] = pr
        /\ \E j \in 1..Len(CallParams.secondary_rules) :
             CallParams.secondary_rules[j] = sr
        /\ {pr.axis, sr.axis} = AxisNames
        /\ \A rule \in {pr, sr} :
             CoordOn(rule.axis) - OffsetOn(rule.axis) =
               is_satisfiable(rule, CallParams, Call.width, Call.height,
                              Call.bounds).value

\* a solve on lists that hold rules of both axes, where the reported primary
\* rule is not the first of its list and lies on Y
NonConflictingPairWitness ==
  /\ Succeeded
  /\ Len(CallParams.primary_rules) = 2
  /\ CallParams.primary_rules[1].axis = "X"
  /\ Call.out.primary_rule = CallParams.primary_rules[2]
  /\ Call.out.primary_rule.axis = "Y"
  /\ Call.out.secondary_rule.axis = "X"

\* the distance, for a reported adjacent rule, from the attachment
\* rectangle's edge to the facing edge of the window placed at the rule's
\* unclamped candidate, the returned coordinate less the returned offset
GapOf(rule) ==
  LET x == rule.axis = "X"
      origin == IF x THEN CallParams.origin_x ELSE CallParams.origin_y
      pos == IF x THEN CallParams.attach_rect.x ELSE CallParams.attach_rect.y
      rsize == IF x THEN CallParams.attach_rect.width
               ELSE CallParams.attach_rect.height
      wsize == IF x THEN Call.width ELSE Call.height
      c == CoordOn(rule.axis) - OffsetOn(rule.axis)
  IN  IF rule.rect = "MAX"
      THEN c - (origin + pos + rsize)
      ELSE (origin + pos) - (c + wsize)

\* the attach margin plus the window margin on the sides that face each other
FacingMargins(rule) ==
  LET x == rule.axis = "X"
      am == CallParams.attach_margin
      wm == CallParams.window_margin
  IN  IF rule.rect = "MAX"
      THEN (IF x THEN am.right + wm.left ELSE am.bottom + wm.top)
      ELSE (IF x THEN am.left + wm.right ELSE am.top + wm.bottom)

\* C14 - Window margin is space left around the window: in every successful
\* solve with zero window offset, the unclamped candidate of each reported
\* adjacent rule (rectangle MAX with window MIN, or rectangle MIN with window
\* MAX) leaves a gap between the attachment rectangle and the window equal
\* to the attach margin plus the window margin on the facing sides.
WindowMarginGap ==
  (Succeeded /\ CallParams.offset_x = 0 /\ CallParams.offset_y = 0) =>
    \A rule \in {Call.out.primary_rule, Call.out.secondary_rule} :
      use_rect_margin(rule) => GapOf(rule) = FacingMargins(rule)

SolverFields(params) ==
  [primary_rules |-> params.primary_rules,
   secondary_rules |-> params.secondary_rules,
   has_attach_rect |-> params.has_attach_rect,
   attach_rect |-> params.attach_rect,
   origin |-> <<params.origin_x, params.origin_y>>,
   attach_margin |-> params.attach_margin,
   window_margin |-> params.window_margin,
   window_padding |-> params.window_padding,
   offset |-> <<params.offset_x, params.offset_y>>]

\* what the solver returns on a params, for each size inside the work area
SolveResults(params) ==
  [sz \in SizeArgs, b \in WorkAreas |->
     gdk_attach_params_choose_position(params, sz[1], sz[2], b)]

\* the params behind a pointer, with its rule arrays read through
Params(p) == Deref(heap[p].params)

\* one step: a copy just made holds and solves what its source does, and a
\* call that changes what one params holds leaves alone what every other
\* params holds and solves to
CopyIndependenceStep ==
  /\ \A src \in Ids : \A ret \in Ids :
       (log' # <<>> /\ log'[1].ev = "copy"
          /\ log'[1].src = src /\ log'[1].ret = ret) =>
         \A original \in {Params(src)'} : \A copy \in {Params(ret)'} :
           /\ SolverFields(copy) = SolverFields(original)
           /\ SolveResults(copy) = SolveResults(original)
  /\ \A p \in Ids :
       (Live(p) /\ Live(p)'
          /\ SolverFields(Params(p)') # SolverFields(Params(p))) =>
         \A q \in Ids \ {p} :
           (Live(q) /\ Live(q)') =>
             \A before \in {Params(q)} : \A after \in {Params(q)'} :
               /\ SolverFields(after) = SolverFields(before)
               /\ SolveResults(after) = SolveResults(before)

\* C13 - Deep copy independence: right after copy = gdk_attach_params_copy
\* (src) the two hold the same rule lists, rectangle, margins and offset and
\* solve identically, and every later rule addition or setter call on one of
\* them leaves the other's rule lists, rectangle, margins, offset and solve
\* results unchanged.
CopyIndependence == [][CopyIndependenceStep]_vars

\* a source and its copy that were both extended after the copy was made:
\* they differ in rectangle and both rule lists, and only the copy can be
\* solved
CopyIndependenceWitness ==
  /\ Live(1) /\ Live(2)
  /\ Params(1).has_attach_rect # Params(2).has_attach_rect
  /\ Len(Params(1).primary_rules) = 2
  /\ Len(Params(2).primary_rules) = 1
  /\ Len(Params(1).secondary_rules) = 0
  /\ Len(Params(2).secondary_rules) = 1
  /\ \E a \in DOMAIN SolveResults(Params(1)) :
       /\ ~SolveResults(Params(1))[a].ret
       /\ SolveResults(Params(2))[a].ret

\* the arguments of an adder call up to, not including, the first zero
UpToZero(args) ==
  LET zeros == {n \in 1..Len(args) : args[n] = ZeroRule}
  IN  IF zeros = {} THEN args ELSE SubSeq(args, 1, Least(zeros) - 1)

\* the rules the func of a foreach call was called with, in order
Visited(events) == [n \in 1..(Len(events) - 1) |-> events[n + 1].rule]

\* one step on the lists of each params
AppendOnlyStep ==
  \A p \in Ids :
    (Live(p) /\ Live(p)') =>
      LET before == Deref(heap[p].params)
          after == Deref(heap[p].params)'
          call == IF log' # <<>> /\ "params" \in DOMAIN log'[1]
                     /\ log'[1].params = p
                  THEN log'[1].ev ELSE "none"
      IN  /\ after.primary_rules =
               before.primary_rules
               \o (IF call = "add_primary_rules"
                   THEN UpToZero(log'[1].args) ELSE <<>>)
          /\ after.secondary_rules =
               before.secondary_rules
               \o (IF call = "add_secondary_rules"
                   THEN UpToZero(log'[1].args) ELSE <<>>)
          /\ \A n \in 1..Len(after.primary_rules) :
               after.primary_rules[n] # ZeroRule
          /\ \A n \in 1..Len(after.secondary_rules) :
               after.secondary_rules[n] # ZeroRule
          /\ call = "primary_rules_foreach" =>
               Visited(log') = after.primary_rules
          /\ call = "secondary_rules_foreach" =>
               Visited(log') = after.secondary_rules

\* C15 - Rule lists are append-only and order-preserving: every adder call
\* appends to its own list its arguments up to, not including, the first
\* zero, in order, and leaves the other list alone; no other call changes a
\* list; no list ever holds a zero rule; and a foreach call visits the rules
\* of its list once each, in list order.
AppendOnly == [][AppendOnlyStep]_vars

\* the primary list built by two adder calls, one with a zero in the middle
\* and one with two rules before the zero, then enumerated
AppendOnlyWitness ==
  /\ log # <<>>
  /\ Call.ev = "primary_rules_foreach"
  /\ Len(log) = 4
  /\ Deref(heap[1].params).primary_rules =
       <<Rule("X", "MAX", "MIN"), Rule("Y", "MIN", "MAX"),
         Rule("X", "MAX", "MIN")>>
  /\ Visited(log) = Deref(heap[1].params).primary_rules

====
